---- MODULE Spec2Model ----
(***************************************************************************)
(* Model of bp.memory (MemoryFS, MemoryFile, MemoryPath), bp.generic and   *)
(* bp.readonly (ReadOnlyPath).                                             *)
(*                                                                         *)
(* A location is a tuple of segments, as in MemoryPath._path.  The store   *)
(* is the four attributes of MemoryFS.  Byte strings are sequences over    *)
(* Bytes.  Every mutating call made on the API is one step; `last' records *)
(* the call and the exception it raised (None when it returned).  Calls    *)
(* that only read (isdir, getContent, listdir, ...) are operators on the   *)
(* state.                                                                  *)
(***************************************************************************)
EXTENDS Integers, Sequences, FiniteSets, TLC

\* ---------------------------------------------------------------- bounds
MaxLen == 2
MaxHandles == 2
MaxDepth == 3

Bytes == {"X"}
ByteStrings == UNION {[1..n -> Bytes] : n \in 0..MaxLen}

root == <<>>
foo == <<"foo">>
bar == <<"bar">>
baz == <<"bar", "baz">>
Locs == {root, foo, bar, baz}
Names == {"foo", "bar", "baz"}
\* the locations genericParents is run on
GenPaths == UNION {[1..n -> Names] : n \in 0..MaxDepth}
HandleLocs == {foo}
NearLocs == {root, foo}

\* owner identities: the ones chown is given, and os.getuid()
Owners == {"uid1", "uid2"}
getuid == "getuid"

\* the keys chown is called with: the location tuple, or the MemoryPath
\* value at that location
tupleKey(p) == [cls |-> "tuple", path |-> p]
MemoryPathKey(p) == [cls |-> "MemoryPath", path |-> p]
ChownKeys == {tupleKey(foo), MemoryPathKey(foo)}

\* open modes, as character sequences: "r", "w", "r+"
Modes == {<<"r">>, <<"w">>, <<"r", "+">>}

\* ---------------------------------------------------------------- errors
None == "None"
AlreadyExists == "AlreadyExists"
NotFound == "NotFound"
NotListable == "NotListable"
IsADirectory == "IsADirectory"
InvalidOperation == "InvalidOperation"
WriteDenied == "WriteDenied"
KeyError == "KeyError"

VARIABLES store, dirs, uids, links, handles, last, gen

vars == <<store, dirs, uids, links, handles, last, gen>>

\* ------------------------------------------------------- dict primitives
\* d[k] = v on a Python dict
dictSet(d, k, v) == [q \in DOMAIN d \cup {k} |-> IF q = k THEN v ELSE d[q]]
\* del d[k] on a Python dict (the caller has checked k in d)
dictDel(d, k) == [q \in DOMAIN d \ {k} |-> d[q]]

\* all orders in which a set can be iterated
iterations(S) ==
    {s \in [1..Cardinality(S) -> S] : \A i, j \in 1..Cardinality(S) : s[i] = s[j] => i = j}

\* what a location is: "absent", "file", "dir", or "both" when it is a key of
\* the content map and a member of the directory set
kindOf(p) ==
    IF p \in dirs
    THEN IF p \in DOMAIN store THEN "both" ELSE "dir"
    ELSE IF p \in DOMAIN store THEN "file" ELSE "absent"

\* the record of a call: its name, whether it went through a ReadOnlyPath, its
\* location and argument, the exception it raised, what the location was when
\* the call was made (was) and whether the call before it was the same
\* operation on the same location (rep)
Call(op, ro, path, arg, err, peer) ==
    [op |-> op, ro |-> ro, path |-> path, arg |-> arg, err |-> err, peer |-> peer,
     was |-> kindOf(path),
     rep |-> (last.op = op /\ last.path = path /\ last.ro = ro)]

\* ------------------------------------------------------------ navigation
parent(p) == IF p # <<>> THEN SubSeq(p, 1, Len(p) - 1) ELSE p
child(p, name) == p \o <<name>>
descendant(p, segments) == p \o segments

\* -------------------------------------------------------------- queries
isdir(p) == p \in dirs
isfile(p) == p \in DOMAIN store
exists(p) == isdir(p) \/ isfile(p)

directChildren_descendants(T, p) == {t \in T : Len(t) > Len(p) /\ SubSeq(t, 1, Len(p)) = p}

\* the direct children of p among the locations of T
directChildren(T, p) == {t \in T : Len(t) = Len(p) + 1 /\ SubSeq(t, 1, Len(t) - 1) = p}

\* every list listdir can return on (st, ds): chain(dirs, store.keys()) in
\* any iteration order of the set and of the dict
listings(st, ds, p) ==
    {[i \in 1..Len(s) |-> s[i][Len(s[i])]] :
        s \in {a \o b : a \in iterations(directChildren(ds, p)),
                        b \in iterations(directChildren(DOMAIN st, p))}}

listdir(p) ==
    IF p \notin dirs
    THEN {[err |-> NotListable, ret |-> <<>>]}
    ELSE {[err |-> None, ret |-> ks] : ks \in listings(store, dirs, p)}

genericChildren(st, ds, p) ==
    {[i \in 1..Len(ks) |-> child(p, ks[i])] : ks \in listings(st, ds, p)}

getContent(p) ==
    IF p \in DOMAIN store
    THEN [err |-> None, ret |-> store[p]]
    ELSE [err |-> NotFound, ret |-> <<>>]

getsize(p) ==
    IF p \in DOMAIN store
    THEN [err |-> None, ret |-> Len(store[p])]
    ELSE [err |-> InvalidOperation, ret |-> 0]

\* ------------------------------------------------------------- mutators
Init_rootDirectory ==
    /\ store = <<>>
    /\ dirs = {root}
    /\ uids = <<>>
    /\ links = <<>>
    /\ handles = <<>>
    /\ last = [op |-> "init", ro |-> FALSE, path |-> root, arg |-> <<>>,
               err |-> None, peer |-> <<>>, was |-> "dir", rep |-> FALSE]
    /\ gen = [pc |-> "idle", start |-> root, path |-> root, parent |-> root, out |-> <<>>]

Init ==
    /\ store = <<>>
    /\ dirs = {}
    /\ uids = <<>>
    /\ links = <<>>
    /\ handles = <<>>
    /\ last = [op |-> "init", ro |-> FALSE, path |-> root, arg |-> <<>>,
               err |-> None, peer |-> <<>>, was |-> "absent", rep |-> FALSE]
    /\ gen = [pc |-> "idle", start |-> root, path |-> root, parent |-> root, out |-> <<>>]

setContent_ifAbsent(p, content) ==
    /\ store' = IF p \in DOMAIN store THEN store ELSE dictSet(store, p, content)
    /\ last' = Call("setContent", FALSE, p, content, None, <<>>)
    /\ UNCHANGED <<gen, dirs, uids, links, handles>>

setContent_makesParents(p, content) ==
    /\ store' = dictSet(store, p, content)
    /\ dirs' = dirs \cup {SubSeq(p, 1, n) : n \in 0..Len(p) - 1}
    /\ last' = Call("setContent", FALSE, p, content, None, <<>>)
    /\ UNCHANGED <<gen, uids, links, handles>>

setContent(p, content) ==
    /\ store' = dictSet(store, p, content)
    /\ last' = Call("setContent", FALSE, p, content, None, <<>>)
    /\ UNCHANGED <<gen, dirs, uids, links, handles>>

createDirectory_strict(p) ==
    IF p \in DOMAIN store \/ p \in dirs
    THEN /\ last' = Call("createDirectory", FALSE, p, <<>>, AlreadyExists, <<>>)
         /\ UNCHANGED <<gen, store, dirs, uids, links, handles>>
    ELSE /\ dirs' = dirs \cup {p}
         /\ last' = Call("createDirectory", FALSE, p, <<>>, None, <<>>)
         /\ UNCHANGED <<gen, store, uids, links, handles>>

createDirectory_addsFirst(p) ==
    IF p \in DOMAIN store
    THEN /\ dirs' = dirs \cup {p}
         /\ last' = Call("createDirectory", FALSE, p, <<>>, AlreadyExists, <<>>)
         /\ UNCHANGED <<gen, store, uids, links, handles>>
    ELSE /\ dirs' = dirs \cup {p}
         /\ last' = Call("createDirectory", FALSE, p, <<>>, None, <<>>)
         /\ UNCHANGED <<gen, store, uids, links, handles>>

createDirectory(p) ==
    IF p \in DOMAIN store
    THEN /\ last' = Call("createDirectory", FALSE, p, <<>>, AlreadyExists, <<>>)
         /\ UNCHANGED <<gen, store, dirs, uids, links, handles>>
    ELSE /\ dirs' = dirs \cup {p}
         /\ last' = Call("createDirectory", FALSE, p, <<>>, None, <<>>)
         /\ UNCHANGED <<gen, store, uids, links, handles>>

RECURSIVE removeFrom(_, _, _), removeEach(_, _, _)

\* the outcomes of calling remove() on each path of the list cs in turn,
\* stopping at the first exception
removeEach(st, ds, cs) ==
    IF cs = <<>>
    THEN {[store |-> st, dirs |-> ds, err |-> None, listed |-> <<>>]}
    ELSE UNION {IF r.err # None THEN {r} ELSE removeEach(r.store, r.dirs, Tail(cs)) :
                    r \in removeFrom(st, ds, Head(cs))}

\* the names listdir returned for the list of children cs
basenames(cs) == [i \in 1..Len(cs) |-> cs[i][Len(cs[i])]]

removeFrom_silent(st, ds, p) ==
    IF p \in ds
    THEN UNION {{IF r.err # None THEN [r EXCEPT !.listed = basenames(cs)]
                 ELSE IF p \in r.dirs
                 THEN [r EXCEPT !.dirs = r.dirs \ {p}, !.listed = basenames(cs)]
                 ELSE [r EXCEPT !.err = KeyError, !.listed = basenames(cs)] :
                     r \in removeEach(st, ds, cs)} :
                cs \in genericChildren(st, ds, p)}
    ELSE {[store |-> dictDel(st, p), dirs |-> ds, err |-> None, listed |-> <<>>]}

removeFrom_dropsContent(st, ds, p) ==
    IF p \in ds
    THEN UNION {{IF r.err # None THEN [r EXCEPT !.listed = basenames(cs)]
                 ELSE IF p \in r.dirs
                 THEN [r EXCEPT !.dirs = r.dirs \ {p}, !.store = dictDel(r.store, p),
                                !.listed = basenames(cs)]
                 ELSE [r EXCEPT !.err = KeyError, !.listed = basenames(cs)] :
                     r \in removeEach(st, ds, cs)} :
                cs \in genericChildren(st, ds, p)}
    ELSE IF p \in DOMAIN st
    THEN {[store |-> dictDel(st, p), dirs |-> ds, err |-> None, listed |-> <<>>]}
    ELSE {[store |-> st, dirs |-> ds, err |-> NotFound, listed |-> <<>>]}

removeFrom_dropsParent(st, ds, p) ==
    IF p \in ds
    THEN UNION {{IF r.err # None THEN [r EXCEPT !.listed = basenames(cs)]
                 ELSE IF p \in r.dirs
                 THEN [r EXCEPT !.dirs = r.dirs \ {p, parent(p)}, !.listed = basenames(cs)]
                 ELSE [r EXCEPT !.err = KeyError, !.listed = basenames(cs)] :
                     r \in removeEach(st, ds, cs)} :
                cs \in genericChildren(st, ds, p)}
    ELSE IF p \in DOMAIN st
    THEN {[store |-> dictDel(st, p), dirs |-> ds, err |-> None, listed |-> <<>>]}
    ELSE {[store |-> st, dirs |-> ds, err |-> NotFound, listed |-> <<>>]}

\* the outcomes of MemoryPath.remove on location p in the store (st, ds):
\* the store it leaves, the exception it raises and the names its own
\* listdir returned
removeFrom(st, ds, p) ==
    IF p \in ds
    THEN UNION {{IF r.err # None THEN [r EXCEPT !.listed = basenames(cs)]
                 ELSE IF p \in r.dirs
                 THEN [r EXCEPT !.dirs = r.dirs \ {p}, !.listed = basenames(cs)]
                 ELSE [r EXCEPT !.err = KeyError, !.listed = basenames(cs)] :
                     r \in removeEach(st, ds, cs)} :
                cs \in genericChildren(st, ds, p)}
    ELSE IF p \in DOMAIN st
    THEN {[store |-> dictDel(st, p), dirs |-> ds, err |-> None, listed |-> <<>>]}
    ELSE {[store |-> st, dirs |-> ds, err |-> NotFound, listed |-> <<>>]}

\* remove() on the path at p; the call record keeps the names listed
remove(p) ==
    \E r \in removeFrom(store, dirs, p) :
        /\ store' = r.store
        /\ dirs' = r.dirs
        /\ last' = Call("remove", FALSE, p, r.listed, r.err, <<>>)
        /\ UNCHANGED <<gen, uids, links, handles>>

\* ------------------------------------------------------------- handles
\* MemoryFile(store, key, buf): an open BytesIO seeded with buf.  ro marks a
\* handle handed out by a ReadOnlyPath.
MemoryFile(key, buf, ro) == [key |-> key, buf |-> buf, ro |-> ro]

\* <<b>> when a handle on key committed b and only writes to handles on key
\* followed: every handle on key that is open now was open at that close
closedPeer(key) ==
    IF last.path = key /\ last.op = "close" THEN <<last.arg>>
    ELSE IF last.path = key /\ last.op = "write" THEN last.peer
    ELSE <<>>

MemoryFS_create_reserves(p, ro) ==
    IF p \in dirs \/ p \in DOMAIN store
    THEN /\ last' = Call("create", ro, p, <<>>, AlreadyExists, <<>>)
         /\ UNCHANGED <<gen, store, dirs, uids, links, handles>>
    ELSE /\ Len(handles) < MaxHandles
         /\ handles' = Append(handles, MemoryFile(p, <<>>, ro))
         /\ store' = dictSet(store, p, <<>>)
         /\ last' = Call("create", ro, p, <<>>, None, <<>>)
         /\ UNCHANGED <<gen, dirs, uids, links>>

MemoryFS_create(p, ro) ==
    IF p \in dirs \/ p \in DOMAIN store
    THEN /\ last' = Call("create", ro, p, <<>>, AlreadyExists, <<>>)
         /\ UNCHANGED <<gen, store, dirs, uids, links, handles>>
    ELSE /\ Len(handles) < MaxHandles
         /\ handles' = Append(handles, MemoryFile(p, <<>>, ro))
         /\ last' = Call("create", ro, p, <<>>, None, <<>>)
         /\ UNCHANGED <<gen, store, dirs, uids, links>>

MemoryFS_open(p, mode, ro) ==
    IF p \in dirs
    THEN /\ last' = Call("open", ro, p, mode, IsADirectory, <<>>)
         /\ UNCHANGED <<gen, store, dirs, uids, links, handles>>
    ELSE /\ Len(handles) < MaxHandles
         /\ handles' = Append(handles,
                MemoryFile(p, IF p \in DOMAIN store THEN store[p] ELSE <<>>, ro))
         /\ last' = Call("open", ro, p, mode, None, <<>>)
         /\ UNCHANGED <<gen, store, dirs, uids, links>>

create(p) == MemoryFS_create(p, FALSE)

open(p, mode) == MemoryFS_open(p, mode, FALSE)

\* the buffer after BytesIO.seek(pos) and BytesIO.write(b)
written(buf, pos, b) ==
    SubSeq(buf, 1, pos) \o b \o SubSeq(buf, pos + Len(b) + 1, Len(buf))

\* BytesIO.seek(pos) then BytesIO.write(b) on the i-th open handle
write(i, pos, b) ==
    /\ pos \in 0..Len(handles[i].buf)
    /\ Len(written(handles[i].buf, pos, b)) <= MaxLen
    /\ handles' = [handles EXCEPT ![i].buf = written(handles[i].buf, pos, b)]
    /\ last' = Call("write", handles[i].ro, handles[i].key, b, None,
                    closedPeer(handles[i].key))
    /\ UNCHANGED <<gen, store, dirs, uids, links>>

\* the open handles without the i-th
without(i) ==
    [j \in 1..Len(handles) - 1 |-> IF j < i THEN handles[j] ELSE handles[j + 1]]

close_firstWins(i) ==
    /\ store' = IF handles[i].key \in DOMAIN store THEN store
                ELSE dictSet(store, handles[i].key, handles[i].buf)
    /\ handles' = without(i)
    /\ last' = Call("close", handles[i].ro, handles[i].key, handles[i].buf, None,
                    closedPeer(handles[i].key))
    /\ UNCHANGED <<gen, dirs, uids, links>>

close_unlessDirectory(i) ==
    /\ store' = IF handles[i].key \in dirs THEN store
                ELSE dictSet(store, handles[i].key, handles[i].buf)
    /\ handles' = without(i)
    /\ last' = Call("close", handles[i].ro, handles[i].key, handles[i].buf, None,
                    closedPeer(handles[i].key))
    /\ UNCHANGED <<gen, dirs, uids, links>>

\* MemoryFile.close on the i-th open handle
close(i) ==
    /\ store' = dictSet(store, handles[i].key, handles[i].buf)
    /\ handles' = without(i)
    /\ last' = Call("close", handles[i].ro, handles[i].key, handles[i].buf, None,
                    closedPeer(handles[i].key))
    /\ UNCHANGED <<gen, dirs, uids, links>>

\* ------------------------------------------------------- ReadOnlyPath
\* A ReadOnlyPath over MemoryPath(fs, p) is identified by p.
modeIsWriting(mode) == \E i \in 1..Len(mode) : mode[i] \in {"w", "a", "+"}

ReadOnlyPath_parent(p) == parent(p)
ReadOnlyPath_child(p, name) == child(p, name)
ReadOnlyPath_listdir(p) == listdir(p)
ReadOnlyPath_getContent(p) == getContent(p)
ReadOnlyPath_isdir(p) == isdir(p)
ReadOnlyPath_isfile(p) == isfile(p)
ReadOnlyPath_exists(p) == exists(p)

ReadOnlyPath_open(p, mode) ==
    IF modeIsWriting(mode)
    THEN /\ last' = Call("open", TRUE, p, mode, WriteDenied, <<>>)
         /\ UNCHANGED <<gen, store, dirs, uids, links, handles>>
    ELSE MemoryFS_open(p, mode, TRUE)

ReadOnlyPath_createDirectory(p) ==
    /\ last' = Call("createDirectory", TRUE, p, <<>>, WriteDenied, <<>>)
    /\ UNCHANGED <<gen, store, dirs, uids, links, handles>>

ReadOnlyPath_setContent_delegates(p, content) ==
    /\ store' = dictSet(store, p, content)
    /\ last' = Call("setContent", TRUE, p, content, None, <<>>)
    /\ UNCHANGED <<gen, dirs, uids, links, handles>>

ReadOnlyPath_setContent(p, content) ==
    /\ last' = Call("setContent", TRUE, p, content, WriteDenied, <<>>)
    /\ UNCHANGED <<gen, store, dirs, uids, links, handles>>

\* ------------------------------------------------- ownership and links
MemoryFS_chown(key, uid) ==
    /\ uids' = dictSet(uids, key, uid)
    /\ last' = Call("chown", FALSE, key.path, <<key.cls, uid>>, None, <<>>)
    /\ UNCHANGED <<gen, store, dirs, links, handles>>

\* the st_uid of MemoryFS.stat(key)
MemoryFS_stat(key) == IF key \in DOMAIN uids THEN uids[key] ELSE getuid

getUserID(p) == MemoryFS_stat(MemoryPathKey(p))

\* sep.join(("/mem",) + path), as the list of the pieces joined
format_memory_path(p, sep) ==
    [i \in 1..2 * Len(p) + 1 |->
        IF i = 1 THEN "/mem" ELSE IF i % 2 = 0 THEN sep ELSE p[(i - 1) \div 2]]

path(p) == format_memory_path(p, "/")

\* links maps the location of a MemoryPath of this store to the location of
\* another
islink(p) == p \in DOMAIN links

realpath(p) == path(IF p \in DOMAIN links THEN links[p] ELSE p)

linkTo_reversed(p, linkFilePath) ==
    /\ links' = dictSet(links, p, linkFilePath)
    /\ last' = Call("linkTo", FALSE, p, linkFilePath, None, <<>>)
    /\ UNCHANGED <<gen, store, dirs, uids, handles>>

linkTo(p, linkFilePath) ==
    /\ links' = dictSet(links, linkFilePath, p)
    /\ last' = Call("linkTo", FALSE, p, linkFilePath, None, <<>>)
    /\ UNCHANGED <<gen, store, dirs, uids, handles>>

\* ------------------------------------------------------ genericParents
\* The generator genericParents(path) after its first statement,
\* parent = path.parent(); out is the list of the values yielded so far.
genericParents(p) ==
    [pc |-> "loop", start |-> p, path |-> p, parent |-> parent(p), out |-> <<>>]

genericParents_yieldsPath ==
    /\ gen.pc = "loop"
    /\ gen' = IF gen.path # gen.parent
              THEN [gen EXCEPT !.out = Append(gen.out, gen.path),
                               !.path = gen.parent,
                               !.parent = parent(gen.parent)]
              ELSE [gen EXCEPT !.pc = "done"]
    /\ UNCHANGED <<store, dirs, uids, links, handles, last>>

\* one evaluation of the loop condition, and of the loop body when it holds
genericParents_next ==
    /\ gen.pc = "loop"
    /\ gen' = IF gen.path # gen.parent
              THEN [gen EXCEPT !.out = Append(gen.out, gen.parent),
                               !.path = gen.parent,
                               !.parent = parent(gen.parent)]
              ELSE [gen EXCEPT !.pc = "done"]
    /\ UNCHANGED <<store, dirs, uids, links, handles, last>>

\* ------------------------------------------------------ specifications
\* Spec: the content and directory operations of MemoryPath on every location
Next ==
    \/ \E p \in Locs, content \in ByteStrings : setContent(p, content)
    \/ \E p \in Locs : createDirectory(p)
    \/ \E p \in Locs : remove(p)

Spec == Init /\ [][Next]_vars

\* SpecHandles: file handles on the locations of HandleLocs, interleaved with
\* the content and directory operations on those locations and their parents
NextHandles ==
    \/ \E p \in HandleLocs : create(p)
    \/ \E p \in HandleLocs, mode \in Modes : open(p, mode)
    \/ \E i \in 1..Len(handles), pos \in 0..MaxLen, b \in ByteStrings \ {<<>>} : write(i, pos, b)
    \/ \E i \in 1..Len(handles) : close(i)
    \/ \E p \in NearLocs, content \in ByteStrings : setContent(p, content)
    \/ \E p \in NearLocs : createDirectory(p)
    \/ \E p \in NearLocs : remove(p)

SpecHandles == Init /\ [][NextHandles]_vars

\* SpecRO: a ReadOnlyPath over each location, next to the unwrapped paths
\* that fill the store
NextRO ==
    \/ \E p \in HandleLocs, mode \in Modes : ReadOnlyPath_open(p, mode)
    \/ \E p \in NearLocs : ReadOnlyPath_createDirectory(p)
    \/ \E p \in NearLocs, content \in ByteStrings : ReadOnlyPath_setContent(p, content)
    \/ \E i \in 1..Len(handles), pos \in 0..MaxLen, b \in ByteStrings \ {<<>>} : write(i, pos, b)
    \/ \E i \in 1..Len(handles) : close(i)
    \/ \E p \in NearLocs, content \in ByteStrings : setContent(p, content)
    \/ \E p \in NearLocs : createDirectory(p)

SpecRO == Init /\ [][NextRO]_vars

\* SpecMeta: ownership and links, next to the content and directory
\* operations on the same locations
NextMeta ==
    \/ \E key \in ChownKeys, uid \in Owners : MemoryFS_chown(key, uid)
    \/ \E p \in NearLocs, linkFilePath \in NearLocs : linkTo(p, linkFilePath)
    \/ \E p \in NearLocs, content \in ByteStrings : setContent(p, content)
    \/ \E p \in NearLocs : createDirectory(p)
    \/ \E p \in NearLocs : remove(p)

SpecMeta == Init /\ [][NextMeta]_vars

\* SpecParents: genericParents run to its end on each location of GenPaths
\* over a fresh store; the consumer of the generator keeps asking for the
\* next value
InitParents ==
    /\ store = <<>>
    /\ dirs = {}
    /\ uids = <<>>
    /\ links = <<>>
    /\ handles = <<>>
    /\ last = [op |-> "init", ro |-> FALSE, path |-> root, arg |-> <<>>,
               err |-> None, peer |-> <<>>, was |-> "absent", rep |-> FALSE]
    /\ gen \in {genericParents(p) : p \in GenPaths}

NextParents == genericParents_next

SpecParents == InitParents /\ [][NextParents]_vars /\ WF_vars(NextParents)

\* ---------------------------------------------------------------- claims
\* d is a proper prefix of q
properPrefix(d, q) == Len(q) > Len(d) /\ SubSeq(q, 1, Len(d)) = d

\* C1: no location is at the same time a key of the content map and a member
\* of the directory set.
C1_FileDirExclusive == \A p \in Locs : ~(isfile(p) /\ isdir(p))

\* C2: when remove() on a directory D has returned, neither D nor any
\* location below D exists.
C2_RemoveDirectoryRecursive ==
    (last.op = "remove" /\ ~last.ro /\ last.err = None /\ last.was \in {"dir", "both"})
        => \A q \in Locs : (q = last.path \/ properPrefix(last.path, q)) => ~exists(q)

\* C3: no call made through a ReadOnlyPath, or on a handle a ReadOnlyPath
\* returned, changes the content map, the directory set, the owner map or the
\* link map, and setContent and createDirectory end in the write-denied error.
C3_ReadOnlyNeverMutates ==
    [][last'.ro =>
        /\ store' = store /\ dirs' = dirs /\ uids' = uids /\ links' = links
        /\ (last'.op \in {"setContent", "createDirectory"} => last'.err = WriteDenied)]_vars

\* C4: through a ReadOnlyPath, setContent, createDirectory and open in a
\* writing mode raise the write-denied error and leave the store as it was,
\* and getContent still returns the content the wrapped path had.
C4_ReadOnlyWriteDenied ==
    [][(/\ last'.ro
        /\ \/ last'.op \in {"setContent", "createDirectory"}
           \/ last'.op = "open" /\ modeIsWriting(last'.arg))
       => /\ last'.err = WriteDenied
          /\ store' = store /\ dirs' = dirs /\ handles' = handles
          /\ \A p \in DOMAIN store :
                ReadOnlyPath_getContent(p)' = [err |-> None, ret |-> store[p]]]_vars

C4_Witness ==
    /\ last.ro /\ last.op = "setContent" /\ last.err = WriteDenied
    /\ last.was = "file" /\ last.arg = <<>>
    /\ ReadOnlyPath_getContent(last.path) = [err |-> None, ret |-> <<"X">>]

\* C5: create at an absent location and then create at it again, with no call
\* in between, makes the second call fail with AlreadyExists.
C5_CreateTwiceFails ==
    (last.op = "create" /\ last.rep /\ last.was = "absent") => last.err = AlreadyExists

\* C6: when a handle on L is closed after another handle on L that was open
\* at the same time, the close raises nothing and the content of L is the
\* buffer of the handle closed last.
C6_LastCloseWins ==
    (last.op = "close" /\ last.peer # <<>>)
        => last.err = None /\ isfile(last.path) /\ store[last.path] = last.arg

C6_Witness ==
    /\ last.op = "close" /\ last.peer # <<>> /\ last.peer[1] # last.arg
    /\ store[last.path] = last.arg

\* C7: getContent right after setContent(b) at L returns b, whatever L was
\* before, and getContent at a location without content fails with NotFound.
C7_RoundTrip ==
    /\ (last.op = "setContent" /\ ~last.ro)
            => getContent(last.path) = [err |-> None, ret |-> last.arg]
    /\ \A p \in Locs : ~isfile(p) => getContent(p).err = NotFound

C7_Witness ==
    /\ last.op = "setContent" /\ ~last.ro /\ last.was = "both" /\ last.rep
    /\ last.arg = <<>>
    /\ getContent(last.path) = [err |-> None, ret |-> <<>>]
    /\ \E p \in Locs : getContent(p).err = NotFound

\* C8: a second createDirectory at a location without content does not fail,
\* leaves the location a directory and leaves the store as the first call
\* left it.
C8_CreateDirectoryIdempotent ==
    [][(last'.op = "createDirectory" /\ ~last'.ro /\ last'.rep /\ last'.was = "dir")
       => /\ last'.err = None
          /\ last'.path \in dirs'
          /\ store' = store /\ dirs' = dirs /\ uids' = uids /\ links' = links]_vars

C8_Witness ==
    /\ last.op = "createDirectory" /\ ~last.ro /\ last.rep /\ last.was = "dir"
    /\ last.err = None /\ isdir(last.path) /\ ~isfile(last.path)

\* C9: remove() on a file that is not a directory makes it not exist any
\* more, and remove() on a location that is neither fails with NotFound.
C9_RemoveFile ==
    (last.op = "remove" /\ ~last.ro)
        => /\ last.was = "file" => (last.err = None /\ ~exists(last.path))
           /\ last.was = "absent" => last.err = NotFound

C9_Witness ==
    /\ last.op = "remove" /\ ~last.ro /\ last.was = "file"
    /\ last.err = None /\ ~exists(last.path)

\* C10 as stated: the root is a directory, and can be listed, in every
\* reachable state.
C10_RootAlwaysDirectory ==
    isdir(root) /\ \A r \in listdir(root) : r.err # NotListable

\* C10 amended: the root is a directory only while it is in the directory
\* set: not on a fresh store and not after remove() on it has returned, where
\* listdir() on it fails with NotListable, and it is one after
\* createDirectory() on it.
C10_RootDirectoryWhileMarked ==
    /\ (\/ last.op = "init"
        \/ last.op = "remove" /\ ~last.ro /\ last.path = root /\ last.err = None)
            => ~isdir(root) /\ listdir(root) = {[err |-> NotListable, ret |-> <<>>]}
    /\ (last.op = "createDirectory" /\ ~last.ro /\ last.path = root /\ last.err = None)
            => isdir(root) /\ \A r \in listdir(root) : r.err = None

C10_Witness ==
    /\ last.op = "remove" /\ ~last.ro /\ last.path = root /\ last.err = None
    /\ last.was = "dir" /\ ~isdir(root)

\* C11: a failing create, open or createDirectory, and a failing remove on a
\* location that is neither file nor directory, leave the content map, the
\* directory set, the owner map, the link map and the open handles as they
\* were; getContent, getsize and listdir, which fail on such locations, are
\* functions of the store.
C11_FailureLeavesStore ==
    [][(/\ ~last'.ro /\ last'.err # None
        /\ \/ last'.op \in {"create", "open", "createDirectory"}
           \/ last'.op = "remove" /\ last'.was = "absent")
       => /\ store' = store /\ dirs' = dirs /\ uids' = uids /\ links' = links
          /\ handles' = handles
          /\ \A p \in Locs : /\ getContent(p)' = getContent(p)
                               /\ getsize(p)' = getsize(p)
                               /\ listdir(p)' = listdir(p)]_vars

C11_Witness ==
    /\ last.op = "createDirectory" /\ ~last.ro /\ last.err = AlreadyExists
    /\ last.was = "file" /\ ~isdir(last.path)
    /\ listdir(last.path) = {[err |-> NotListable, ret |-> <<>>]}

\* C12: genericParents terminates on every location, and for a location of n
\* segments it has then yielded exactly n values, the i-th being the location
\* without its last i segments: the parent first, the root last, nothing for
\* the root.
C12_AncestorsTerminate ==
    /\ <>(gen.pc = "done")
    /\ [](gen.pc = "done" =>
            /\ Len(gen.out) = Len(gen.start)
            /\ \A i \in 1..Len(gen.out) :
                    gen.out[i] = SubSeq(gen.start, 1, Len(gen.start) - i))

C12_Witness ==
    /\ gen.pc = "done" /\ gen.start = baz
    /\ gen.out = <<bar, root>>

\* C13: nothing exists on a fresh store, and a location comes to exist only
\* in a step of setContent, createDirectory or a handle's close made on that
\* very location; so a location that was never the target of one of them does
\* not exist, and content created below it does not make it exist.
C13_NeverCreatedAbsent ==
    /\ \A L \in Locs : ~exists(L) /\ ~isdir(L) /\ ~isfile(L)
    /\ [][\A L \in Locs :
            (exists(L)' /\ ~exists(L))
                => /\ last'.path = L /\ last'.err = None
                   /\ last'.op \in {"setContent", "createDirectory", "close"}]_vars

C13_Witness ==
    /\ last.op = "setContent" /\ last.path = baz /\ isfile(baz)
    /\ ~exists(bar) /\ ~isdir(bar) /\ ~isfile(bar) /\ ~exists(root)

\* C14: listdir on a location that is not in the directory set fails with
\* NotListable; on a directory P it returns the final segments of exactly the
\* members of the directory set and the keys of the content map whose parent
\* is P, one entry for each, and of no other location.
C14_ListdirDirectChildren ==
    \A P \in Locs :
        IF ~isdir(P)
        THEN listdir(P) = {[err |-> NotListable, ret |-> <<>>]}
        ELSE /\ listdir(P) # {}
             /\ \A r \in listdir(P) :
                    /\ r.err = None
                    /\ {r.ret[i] : i \in 1..Len(r.ret)} =
                        {t[Len(t)] : t \in {u \in dirs \cup DOMAIN store :
                                                u # root /\ parent(u) = P}}
                    /\ Len(r.ret) =
                        Cardinality({u \in dirs : u # root /\ parent(u) = P})
                        + Cardinality({u \in DOMAIN store : u # root /\ parent(u) = P})

C14_Witness ==
    /\ isdir(root) /\ isfile(foo) /\ ~isdir(foo) /\ isfile(baz) /\ ~exists(bar)
    /\ listdir(root) = {[err |-> None, ret |-> <<"foo">>]}
    /\ listdir(foo) = {[err |-> NotListable, ret |-> <<>>]}
    /\ listdir(bar) = {[err |-> NotListable, ret |-> <<>>]}

\* C15: open seeds the handle with the content the location has then (empty
\* if it has none) and changes nothing in the store; close sets the content
\* of the handle's location to the handle's buffer, whatever the location has
\* become since the open, and leaves the content of every other location, the
\* directory set, the owner map and the link map as they were.
C15_CommitOnClose ==
    [][/\ (last'.op = "open" /\ last'.err = None)
            => /\ handles' = Append(handles,
                    [key |-> last'.path, ro |-> last'.ro,
                     buf |-> IF isfile(last'.path) THEN store[last'.path] ELSE <<>>])
               /\ store' = store /\ dirs' = dirs /\ uids' = uids /\ links' = links
       /\ (last'.op = "close")
            => \E i \in 1..Len(handles) :
                /\ handles[i].key = last'.path /\ handles' = without(i)
                /\ last'.err = None
                /\ DOMAIN store' = DOMAIN store \cup {last'.path}
                /\ store'[last'.path] = handles[i].buf
                /\ \A q \in DOMAIN store \ {last'.path} : store'[q] = store[q]
                /\ dirs' = dirs /\ uids' = uids /\ links' = links]_vars

C15_Witness ==
    /\ last.op = "close" /\ last.err = None /\ last.was = "dir"
    /\ last.arg = <<"X">> /\ store[last.path] = <<"X">>
    /\ isdir(last.path) /\ isfile(root)

\* C16 as stated: the kind of a location (absent, file, directory) changes
\* only in a step of create, open, the close of their handle, createDirectory
\* or remove; setContent and every other operation leave it unchanged.
C16_KindChangesOnlyByCreateOpenRemove ==
    [][(\E L \in Locs : kindOf(L)' # kindOf(L))
        => last'.op \in {"create", "open", "close", "createDirectory", "remove"}]_vars

\* C16 amended: the kind of a location changes only in a step of setContent,
\* of the close of a handle, of createDirectory or of remove;
\* create and open themselves and writes to a handle leave the kind of every
\* location unchanged.
C16_KindChangesOnlyByCommit ==
    [][(\E L \in Locs : kindOf(L)' # kindOf(L))
        => last'.op \in {"setContent", "close", "createDirectory", "remove"}]_vars

C16_Witness ==
    /\ last.op = "setContent" /\ last.was = "absent" /\ kindOf(last.path) = "file"
    /\ \E i \in 1..Len(handles) : kindOf(handles[i].key) = "absent"

\* C17: after chown(L, owner) on the store with the location L, getUserID()
\* on the path at L returns that owner, and chown has changed only the owner
\* map.
C17_ChownThenGetUserID ==
    [][(last'.op = "chown" /\ last'.arg[1] = "tuple")
        => /\ \A L \in Locs : last'.path = L => getUserID(L)' = last'.arg[2]
           /\ store' = store /\ dirs' = dirs /\ links' = links]_vars

\* C18: after a.linkTo(b), b is a link whose realpath is the path string of
\* a, the link status and realpath of every other path are what they were,
\* and only the link map has changed; a path that is no key of the link map
\* is no link and its realpath is its own path string.
C18_LinkDirection ==
    /\ [](\A q \in Locs : q \notin DOMAIN links => ~islink(q) /\ realpath(q) = path(q))
    /\ [][\A a, b \in Locs :
            (last'.op = "linkTo" /\ last'.path = a /\ last'.arg = b)
                => /\ islink(b)' /\ realpath(b)' = path(a)
                   /\ \A q \in Locs \ {b} :
                        islink(q)' = islink(q) /\ realpath(q)' = realpath(q)
                   /\ store' = store /\ dirs' = dirs /\ uids' = uids
                   /\ handles' = handles]_vars

C18_Witness ==
    /\ last.op = "linkTo" /\ last.path = root /\ last.arg = foo
    /\ islink(foo) /\ realpath(foo) = <<"/mem">>
    /\ ~islink(root) /\ realpath(root) = <<"/mem">>
    /\ path(foo) = <<"/mem", "/", "foo">>

\* C19: remove() on a location that is a file or a directory returns without
\* an exception, also when a child is both and listdir names it twice.
C19_RemoveExistingSucceeds ==
    (last.op = "remove" /\ ~last.ro /\ last.was # "absent") => last.err = None

C19_Witness ==
    /\ last.op = "remove" /\ ~last.ro /\ last.was = "dir" /\ last.err = None
    /\ \E i, j \in 1..Len(last.arg) : i # j /\ last.arg[i] = last.arg[j]

\* C20: remove() on L leaves the content and the directory status of every
\* location that is neither L nor below L as they were, and leaves the owner
\* map and the link map as they were.
C20_RemoveFrame ==
    [][\A L \in Locs :
        (last'.op = "remove" /\ last'.path = L)
            => /\ \A M \in Locs :
                    ~(M = L \/ properPrefix(L, M))
                        => isdir(M)' = isdir(M) /\ getContent(M)' = getContent(M)
               /\ uids' = uids /\ links' = links]_vars

C20_Witness ==
    /\ last.op = "remove" /\ last.path = foo /\ last.err = None /\ ~exists(foo)
    /\ isdir(root) /\ getContent(root) = [err |-> None, ret |-> <<"X">>]
    /\ MemoryFS_stat(tupleKey(foo)) = "uid1" /\ islink(foo)
====
